---- MODULE Spec2Model ----
(***************************************************************************)
(* A model of the scaling-bio collector pipeline: the retry-wrapped remote *)
(* fetches, the cached concurrent DOI lookups of the CellxGene collector,  *)
(* BaseCollector.run and the orchestrator main(), and the transform() of   *)
(* every collector.  Each part is a specification of its own over the      *)
(* variables it uses; the variables of the other parts stay at rest.       *)
(*                                                                         *)
(* Values: a date is a tuple <<year, month, day>>, Python's None (and a    *)
(* NaT) is the empty tuple.                                                *)
(***************************************************************************)
EXTENDS Integers, Sequences, FiniteSets, TLC

VARIABLES
    \* ---- one retry-wrapped fetch (_fetch_single_doi, _fetch_url)
    fkind,      \* "doi": CellxGene _fetch_single_doi, "url": GenBank _fetch_url
    doi,        \* the argument of _fetch_single_doi (a DOI, or NaN)
    attempt,    \* number of requests already issued by this fetch
    flog,       \* what the fetch did to the outside world, in order
    fstate,     \* "running", "returned", "raised"
    fvalue,     \* the returned value (a date or None) once fstate = "returned"
    \* ---- CellxGene transform(): the cached, concurrent DOI lookups
    cacheFile,      \* cellxgene_doi_cache.json on disk: DOI -> date or None
    cacheFile0,     \* the cache file as it was when transform() was called
    dois,           \* unique_dois, the argument of _get_publication_dates
    lpc,            \* "transform", "fetching", "returned", "crashed"
    cache,          \* the dict loaded from the cache file and updated in memory
    results,        \* the dict _get_publication_dates returns
    dois_to_fetch,  \* the uncached DOIs, in the order of dois
    futures,        \* one record per submitted _fetch_single_doi call
    yielded,        \* the DOIs in the order as_completed handed them over,
                    \* which is the order they were inserted in results
    gaveup,         \* the DOIs whose lookup used up its attempts in an
                    \* earlier call of transform()
    \* ---- the orchestrator main() and BaseCollector.run
    COLLECTORS,     \* the registry: the registered ids, in insertion order
    registered,     \* the registry: the class COLLECTORS holds under each id
    collectors,     \* main(): the source_id of each instance that
                    \* get_all_collectors() returned
    idx,            \* main(): position of the for loop in collectors
    mpc,            \* main(): "start", "loop", "done"
    rpc,            \* run(): "idle", "collected", "transformed", "opened"
    sources,        \* main(): the ids whose run() returned
    errors,         \* main(): the ids whose run() raised
    files,          \* site/data/<id>.json: "absent", "old", "empty", "new"
    manifest,       \* site/data/manifest.json: whether written, its sources
    status,         \* the value main() returns, -1 until it returns
    before,         \* the output file of the running collector when run() began
    runlog,         \* the run() calls made so far: [id, ok, before]
    \* ---- collect() and transform() of one collector
    collector,      \* the source_id of the collector
    remote,         \* what the remote source serves to collect()
    store,          \* the collector's private raw store under data/<id>
    collected,      \* how the last collect() ended, and whether every request
                    \* it made to the remote source failed
    searched,       \* SRA: the searches of the last collect(), in order:
                    \* [first, last, raised] with the days of the request
    out,            \* what the last transform() returned, or that it raised
    \* ---- the registry module: its population at import, then its functions
    loading,        \* _register_all: the place of the next module to import
    regstate,       \* "populating", "ready", or "raised" (the import failed)
    warnings,       \* the ids whose import was skipped with a warning
    reglog,         \* every register_collector call so far: [id, cls]
    created,        \* the number of collector instances constructed so far
    answer          \* the last call of a registry function and its result

fetchVars == <<fkind, doi, attempt, flog, fstate, fvalue>>
lookupVars == <<cacheFile, cacheFile0, dois, lpc, cache, results, dois_to_fetch,
                futures, yielded, gaveup>>

mainVars == <<COLLECTORS, registered, collectors, idx, mpc, rpc, sources, errors, files,
              manifest, status, before, runlog>>

xformVars == <<collector, remote, store, collected, searched, out>>

regVars == <<loading, regstate, warnings, reglog, created, answer>>

vars == <<fetchVars, lookupVars, mainVars, xformVars, regVars>>

None == <<>>

\* a missing collection_doi, as pandas holds it
NaN == "nan"

-----------------------------------------------------------------------------
(* Bounds of the model *)

\* the distinct publication dates a remote answer can carry
NumDates == 2

\* the register_collector calls made after the registry module has loaded
MaxRegs == 2

\* the collector instances constructed in one run of the registry model
MaxCreated == 6

\* the distinct DOIs of the dataset table
NumKeys == 2

\* the years a yearly source reports
NumYears == 3

\* the largest count one raw observation carries
MaxAmount == 3

\* the releases GenBank's collect() parses
MaxRows == 3

\* the rows of CellxGene's dataset table
MaxDatasets == 2

\* the largest authoritative total of the census summary
MaxTotal == 4

\* the 14-day windows between 2007-01-01 and the day SRA's collect() runs
NumWindows == 3

-----------------------------------------------------------------------------
(* Remote answers *)

Dates == { <<2020, m, 15>> : m \in 1..NumDates }

\* What one HTTP request can come back with.  "200" carries the body's
\* message.created.date-time (None when the body has no such field),
\* "200bad" is a 200 whose body does not parse, "other" is any exception
\* that is not a requests exception.
Responses ==
    [kind : {"200"}, date : Dates \cup {None}]
    \cup [kind : {"200bad", "429", "404", "500", "timeout", "connerr", "other"},
          date : {None}]

Req(r) == [t |-> "req", kind |-> r.kind, date |-> r.date, d |-> 0]
Sleep(n) == [t |-> "sleep", kind |-> "", date |-> None, d |-> n]

RECURSIVE Pow2(_)
Pow2(n) == IF n = 0 THEN 1 ELSE 2 * Pow2(n - 1)

Max(a, b) == IF a >= b THEN a ELSE b
Min(a, b) == IF a <= b THEN a ELSE b

-----------------------------------------------------------------------------
(* Dictionaries *)

EmptyDict == <<>>

Put(m, k, v) == [x \in DOMAIN m \cup {k} |-> IF x = k THEN v ELSE m[x]]

\* every dict with keys among K and values among V
Dicts(K, V) == UNION { [D -> V] : D \in SUBSET K }

Range(s) == { s[i] : i \in DOMAIN s }

\* the sequences of distinct elements of S
DistinctSeqs(S) ==
    { q \in UNION { [1..n -> S] : n \in 0..Cardinality(S) } :
        \A i, j \in DOMAIN q : i # j => q[i] # q[j] }

\* the entries of q at the positions in S, in order
RECURSIVE Pick(_, _, _)
Pick(q, S, i) ==
    IF i > Len(q) THEN <<>>
    ELSE (IF i \in S THEN <<q[i]>> ELSE <<>>) \o Pick(q, S, i + 1)

RECURSIVE SetToSeq(_)
SetToSeq(S) ==
    IF S = {} THEN <<>>
    ELSE LET x == CHOOSE y \in S : TRUE IN <<x>> \o SetToSeq(S \ {x})

RECURSIVE Sum(_)
Sum(q) == IF q = <<>> THEN 0 ELSE q[1] + Sum(Tail(q))

\* dates compare as their ISO strings do
DateLess(a, b) ==
    \/ a[1] < b[1]
    \/ a[1] = b[1] /\ a[2] < b[2]
    \/ a[1] = b[1] /\ a[2] = b[2] /\ a[3] < b[3]

NoData == [kind |-> "none"]
NoOutput == [kind |-> "none", data |-> <<>>, current_value |-> 0,
             metric_id |-> "", ts_metric_id |-> ""]
Raised == [kind |-> "raised", data |-> <<>>, current_value |-> 0,
           metric_id |-> "", ts_metric_id |-> ""]

\* collect() has not been called
NotCollected == [kind |-> "never", unreachable |-> FALSE]

\* collect() returned, or raised to its caller
Returned(unreachable) == [kind |-> "returned", unreachable |-> unreachable]
RaisedIn(unreachable) == [kind |-> "raised", unreachable |-> unreachable]

XformAtRest ==
    /\ collector = "" /\ remote = NoData /\ store = NoData
    /\ collected = NotCollected /\ searched = <<>> /\ out = NoOutput

LookupAtRest ==
    /\ cacheFile = EmptyDict /\ cacheFile0 = EmptyDict
    /\ dois = <<>> /\ lpc = "returned"
    /\ cache = EmptyDict /\ results = EmptyDict
    /\ dois_to_fetch = <<>> /\ futures = <<>> /\ yielded = <<>>
    /\ gaveup = {}

\* the ids _register_all registers, in its order
RegistrationOrder == <<"sra", "cellxgene", "pdb", "genbank", "uniprot">>

NoManifest == [written |-> FALSE, version |-> "", sources |-> <<>>]

\* what a registry function last did
NoAnswer == [op |-> "none", source_id |-> "", kind |-> "none", value |-> <<>>]

\* the registry module loaded as _register_all left it, no function called
RegAtRest ==
    /\ loading = Len(RegistrationOrder) + 1 /\ regstate = "ready"
    /\ warnings = <<>> /\ reglog = <<>> /\ created = 0
    /\ answer = NoAnswer

MainAtRest ==
    /\ COLLECTORS = <<>> /\ registered = EmptyDict
    /\ collectors = <<>> /\ idx = 1
    /\ mpc = "done" /\ rpc = "idle"
    /\ sources = <<>> /\ errors = <<>>
    /\ files = [c \in Range(RegistrationOrder) |-> "absent"]
    /\ manifest = NoManifest /\ status = -1
    /\ before = "absent" /\ runlog = <<>>

-----------------------------------------------------------------------------
(* CellxGeneCollector._fetch_single_doi *)

max_retries == 3

DoiBackoffConstant(att) == 1

\* wait_time = 2 ** attempt
DoiBackoff(att) == Pow2(att)

\* One pass of the body of `for attempt in range(max_retries)` for the answer
\* r: whether the function returns, what it returns, and how long it sleeps
\* (0: it does not sleep).
DoiOutcome(att, r) ==
    CASE r.kind = "200"     -> [ret |-> TRUE,  value |-> r.date, sleep |-> 0]
      [] r.kind = "429"     -> [ret |-> FALSE, value |-> None, sleep |-> DoiBackoff(att)]
      [] r.kind = "404"     -> [ret |-> TRUE,  value |-> None, sleep |-> 0]
      [] r.kind = "timeout" -> [ret |-> FALSE, value |-> None, sleep |-> DoiBackoff(att)]
      \* any other status falls out of the if/elif chain, any other exception
      \* (a connection error, an unparseable body) is passed over: the loop
      \* goes on to the next attempt without sleeping
      [] OTHER              -> [ret |-> FALSE, value |-> None, sleep |-> 0]

\* if pd.isna(doi): return (doi, None)
DoiIsNa ==
    /\ fkind = "doi" /\ fstate = "running" /\ attempt = 0
    /\ doi = NaN
    /\ fstate' = "returned"
    /\ fvalue' = None
    /\ UNCHANGED <<fkind, doi, attempt, flog>>
    /\ UNCHANGED <<lookupVars, mainVars, xformVars, regVars>>

DoiAttempt(r) ==
    /\ fkind = "doi" /\ fstate = "running"
    /\ doi # NaN
    /\ attempt < max_retries
    /\ LET o == DoiOutcome(attempt, r)
           log1 == Append(flog, Req(r))
       IN  /\ flog' = IF o.sleep > 0 THEN Append(log1, Sleep(o.sleep)) ELSE log1
           /\ attempt' = attempt + 1
           \* the loop ends after max_retries passes: return (doi, None)
           /\ fstate' = IF o.ret \/ attempt + 1 = max_retries
                        THEN "returned" ELSE "running"
           /\ fvalue' = IF o.ret THEN o.value ELSE None
    /\ UNCHANGED <<fkind, doi>>
    /\ UNCHANGED <<lookupVars, mainVars, xformVars, regVars>>

-----------------------------------------------------------------------------
(* GenBankCollector._fetch_url, wrapped by tenacity's @retry *)

stop_after_attempt == 3
wait_multiplier == 2
wait_min == 2
wait_max == 30

\* requests.exceptions.RequestException: a timeout, a connection error and
\* the HTTPError that raise_for_status() raises for every 4xx and 5xx status
IsRequestException(r) == r.kind \in {"timeout", "connerr", "429", "404", "500"}

\* wait_exponential(multiplier=2, min=2, max=30) after the n-th attempt
UrlWait(n) == Max(wait_min, Min(wait_multiplier * Pow2(n - 1), wait_max))

UrlAttempt(r) ==
    /\ fkind = "url" /\ fstate = "running"
    /\ attempt < stop_after_attempt
    /\ attempt' = attempt + 1
    /\ IF r.kind \in {"200", "200bad"}
       THEN \* the response is returned as it is, its body unread
            /\ flog' = Append(flog, Req(r))
            /\ fstate' = "returned"
            /\ fvalue' = r.date
       ELSE IF IsRequestException(r) /\ attempt + 1 < stop_after_attempt
       THEN /\ flog' = Append(Append(flog, Req(r)), Sleep(UrlWait(attempt + 1)))
            /\ fstate' = "running"
            /\ fvalue' = None
       ELSE \* attempts exhausted (RetryError) or an exception that is not retried
            /\ flog' = Append(flog, Req(r))
            /\ fstate' = "raised"
            /\ fvalue' = None
    /\ UNCHANGED <<fkind, doi>>
    /\ UNCHANGED <<lookupVars, mainVars, xformVars, regVars>>

FetchAtRest ==
    /\ fkind = "doi" /\ doi = NaN /\ attempt = 0
    /\ flog = <<>> /\ fstate = "returned" /\ fvalue = None

InitFetch ==
    /\ LookupAtRest /\ MainAtRest /\ XformAtRest /\ RegAtRest
    /\ fkind \in {"doi", "url"}
    /\ doi \in IF fkind = "doi" THEN {"10.1/a", NaN} ELSE {"10.1/a"}
    /\ attempt = 0
    /\ flog = <<>>
    /\ fstate = "running"
    /\ fvalue = None

NextFetch ==
    \/ DoiIsNa
    \/ \E r \in Responses : DoiAttempt(r)
    \/ \E r \in Responses : UrlAttempt(r)

SpecFetch == InitFetch /\ [][NextFetch]_vars

-----------------------------------------------------------------------------
(* CellxGeneCollector._get_publication_dates, as transform() calls it *)

Keys == 1..NumKeys

max_workers == 5

UncachedIgnoringCache(ds, c) == ds

UncachedOrNull(ds, c) ==
    SelectSeq(ds, LAMBDA k : k \notin DOMAIN c \/ c[k] = None)

\* the DOIs of dois that are not keys of the loaded cache, in order
Uncached(ds, c) == SelectSeq(ds, LAMBDA k : k \notin DOMAIN c)

\* lines 128-133: the cached DOIs are answered from the cache
FromCache(ds, c) ==
    [k \in { x \in Range(ds) : x \in DOMAIN c } |-> c[k]]

\* lines 120-140: load the cache, answer the cached DOIs from it and submit
\* one _fetch_single_doi call per uncached DOI; with nothing to fetch the
\* function returns at once and the cache file is not written
GetPublicationDates ==
    /\ lpc = "transform"
    /\ cache' = cacheFile
    /\ results' = FromCache(dois, cacheFile)
    /\ dois_to_fetch' = Uncached(dois, cacheFile)
    /\ futures' = [i \in 1..Len(dois_to_fetch') |->
                     [doi |-> dois_to_fetch'[i], state |-> "pending",
                      attempt |-> 0, value |-> None, exhausted |-> FALSE]]
    /\ lpc' = IF dois_to_fetch' = <<>> THEN "returned" ELSE "fetching"
    /\ yielded' = <<>>
    /\ UNCHANGED <<cacheFile, cacheFile0, dois, gaveup>>
    /\ UNCHANGED <<fetchVars, mainVars, xformVars, regVars>>

Running == { i \in DOMAIN futures : futures[i].state = "running" }

\* a pool thread takes the oldest pending call
WorkerStart(i) ==
    /\ lpc = "fetching"
    /\ futures[i].state = "pending"
    /\ \A j \in 1..(i - 1) : futures[j].state # "pending"
    /\ Cardinality(Running) < max_workers
    /\ futures' = [futures EXCEPT ![i].state = "running"]
    /\ UNCHANGED <<cacheFile, cacheFile0, dois, yielded, gaveup, lpc, cache, results, dois_to_fetch>>
    /\ UNCHANGED <<fetchVars, mainVars, xformVars, regVars>>

\* one request of a running _fetch_single_doi call, answered r
WorkerAttempt(i, r) ==
    /\ lpc = "fetching"
    /\ futures[i].state = "running"
    /\ futures[i].attempt < max_retries
    /\ LET o == DoiOutcome(futures[i].attempt, r)
           over == o.ret \/ futures[i].attempt + 1 = max_retries
       IN  futures' = [futures EXCEPT
                ![i].attempt = @ + 1,
                ![i].state = IF over THEN "done" ELSE "running",
                ![i].value = IF o.ret THEN o.value ELSE None,
                ![i].exhausted = over /\ ~o.ret]
    /\ UNCHANGED <<cacheFile, cacheFile0, dois, yielded, gaveup, lpc, cache, results, dois_to_fetch>>
    /\ UNCHANGED <<fetchVars, mainVars, xformVars, regVars>>

AsCompletedSaving(i) ==
    /\ lpc = "fetching"
    /\ futures[i].state = "done"
    /\ results' = Put(results, futures[i].doi, futures[i].value)
    /\ cache' = Put(cache, futures[i].doi, futures[i].value)
    /\ cacheFile' = cache'
    /\ futures' = [futures EXCEPT ![i].state = "collected"]
    /\ yielded' = Append(yielded, futures[i].doi)
    /\ UNCHANGED <<cacheFile0, dois, lpc, dois_to_fetch, gaveup>>
    /\ UNCHANGED <<fetchVars, mainVars, xformVars, regVars>>

AsCompletedInSubmissionOrder(i) ==
    /\ lpc = "fetching"
    /\ futures[i].state = "done"
    /\ results' = Put(results, dois_to_fetch[Len(yielded) + 1], futures[i].value)
    /\ cache' = Put(cache, dois_to_fetch[Len(yielded) + 1], futures[i].value)
    /\ futures' = [futures EXCEPT ![i].state = "collected"]
    /\ yielded' = Append(yielded, futures[i].doi)
    /\ UNCHANGED <<cacheFile, cacheFile0, dois, lpc, dois_to_fetch, gaveup>>
    /\ UNCHANGED <<fetchVars, mainVars, xformVars, regVars>>

\* lines 142-146: as_completed hands a finished call to the main thread
AsCompleted(i) ==
    /\ lpc = "fetching"
    /\ futures[i].state = "done"
    /\ results' = Put(results, futures[i].doi, futures[i].value)
    /\ cache' = Put(cache, futures[i].doi, futures[i].value)
    /\ futures' = [futures EXCEPT ![i].state = "collected"]
    /\ yielded' = Append(yielded, futures[i].doi)
    /\ UNCHANGED <<cacheFile, cacheFile0, dois, lpc, dois_to_fetch, gaveup>>
    /\ UNCHANGED <<fetchVars, mainVars, xformVars, regVars>>

\* lines 151-159: every call was collected; the cache file is written and
\* the results are returned
SaveAndReturn ==
    /\ lpc = "fetching"
    /\ \A i \in DOMAIN futures : futures[i].state = "collected"
    /\ cacheFile' = cache
    /\ lpc' = "returned"
    /\ UNCHANGED <<cacheFile0, dois, yielded, gaveup, cache, results, dois_to_fetch, futures>>
    /\ UNCHANGED <<fetchVars, mainVars, xformVars, regVars>>

\* a later run: transform() is called again, on a dataset table that may
\* have other DOIs; the cache file is what the earlier run left
NextRun(ds) ==
    /\ lpc = "returned"
    /\ lpc' = "transform"
    /\ dois' = ds
    /\ cacheFile0' = cacheFile
    /\ gaveup' = gaveup \cup { futures[i].doi : i \in { j \in DOMAIN futures :
                                                          futures[j].exhausted } }
    /\ cache' = EmptyDict /\ results' = EmptyDict
    /\ dois_to_fetch' = <<>> /\ futures' = <<>> /\ yielded' = <<>>
    /\ UNCHANGED cacheFile
    /\ UNCHANGED <<fetchVars, mainVars, xformVars, regVars>>

\* the process dies while the batch is under way
Crash ==
    /\ lpc = "fetching"
    /\ lpc' = "crashed"
    /\ UNCHANGED <<cacheFile, cacheFile0, dois, yielded, gaveup, cache, results, dois_to_fetch, futures>>
    /\ UNCHANGED <<fetchVars, mainVars, xformVars, regVars>>

InitLookup ==
    /\ FetchAtRest /\ MainAtRest /\ XformAtRest /\ RegAtRest
    /\ cacheFile \in Dicts(Keys, Dates \cup {None})
    /\ cacheFile0 = cacheFile
    /\ dois \in DistinctSeqs(Keys)
    /\ lpc = "transform"
    /\ cache = EmptyDict /\ results = EmptyDict
    /\ dois_to_fetch = <<>> /\ futures = <<>> /\ yielded = <<>>
    /\ gaveup = {}

NextLookup ==
    \/ GetPublicationDates
    \/ \E i \in DOMAIN futures : WorkerStart(i)
    \/ \E i \in DOMAIN futures : \E r \in Responses : WorkerAttempt(i, r)
    \/ \E i \in DOMAIN futures : AsCompleted(i)
    \/ SaveAndReturn
    \/ \E ds \in DistinctSeqs(Keys) : NextRun(ds)
    \/ Crash

SpecLookup == InitLookup /\ [][NextLookup]_vars

-----------------------------------------------------------------------------
(* collectors/registry.py *)

\* the class each collector module defines
ClassOf(id) ==
    CASE id = "sra" -> "SRACollector"
      [] id = "cellxgene" -> "CellxGeneCollector"
      [] id = "pdb" -> "PDBCollector"
      [] id = "genbank" -> "GenBankCollector"
      [] id = "uniprot" -> "UniProtCollector"

\* the source_id property of an instance of the class
source_id(cls) == CHOOSE id \in Range(RegistrationOrder) : ClassOf(id) = cls

\* a collector instance: its class, and a serial number that tells it from
\* every other instance
Instance(cls, serial) == [cls |-> cls, serial |-> serial]

Answer(op, id, kind, value) ==
    [op |-> op, source_id |-> id, kind |-> kind, value |-> value]

register_collector_keeping_first(id, collector_class) ==
    /\ COLLECTORS' = IF id \in Range(COLLECTORS) THEN COLLECTORS
                     ELSE Append(COLLECTORS, id)
    /\ registered' = IF id \in DOMAIN registered THEN registered
                     ELSE Put(registered, id, collector_class)
    /\ reglog' = Append(reglog, [id |-> id, cls |-> collector_class])

\* line 13, COLLECTORS[source_id] = collector_class: a new key goes last, a
\* key already present keeps its place and takes the new class
register_collector(id, collector_class) ==
    /\ COLLECTORS' = IF id \in Range(COLLECTORS) THEN COLLECTORS
                     ELSE Append(COLLECTORS, id)
    /\ registered' = Put(registered, id, collector_class)
    /\ reglog' = Append(reglog, [id |-> id, cls |-> collector_class])

\* what Python does when a collector module is imported: it loads, it
\* raises ImportError (a missing dependency), or it raises another
\* exception while loading
ImportOutcomes == {"ok", "ImportError", "other"}

\* lines 31-59, one try block of _register_all: only ImportError is caught
ImportModule(outcome) ==
    /\ regstate = "populating"
    /\ loading <= Len(RegistrationOrder)
    /\ LET id == RegistrationOrder[loading]
       IN  CASE outcome = "ok" ->
                  /\ register_collector(id, ClassOf(id))
                  /\ UNCHANGED warnings
                  /\ loading' = loading + 1
                  /\ regstate' = IF loading = Len(RegistrationOrder)
                                 THEN "ready" ELSE "populating"
             [] outcome = "ImportError" ->
                  /\ warnings' = Append(warnings, id)
                  /\ UNCHANGED <<COLLECTORS, registered, reglog>>
                  /\ loading' = loading + 1
                  /\ regstate' = IF loading = Len(RegistrationOrder)
                                 THEN "ready" ELSE "populating"
             [] outcome = "other" ->
                  /\ regstate' = "raised"
                  /\ UNCHANGED <<COLLECTORS, registered, reglog, warnings, loading>>
    /\ UNCHANGED <<created, answer>>
    /\ UNCHANGED <<collectors, idx, mpc, rpc, sources, errors, files, manifest,
                   status, before, runlog>>
    /\ UNCHANGED <<fetchVars, lookupVars, xformVars>>

\* the ids and classes a caller registers after the module has loaded
CallerIds == {"sra", "custom"}
CallerClasses == {"SRACollector", "PDBCollector"}

\* the register_collector calls made by callers, after the population
CallerRegistrations ==
    Len(reglog) - (Len(RegistrationOrder) - Len(warnings))

\* register_collector(source_id, collector_class) called from outside
RegisterCall(id, cls) ==
    /\ regstate = "ready"
    /\ CallerRegistrations < MaxRegs
    /\ register_collector(id, cls)
    /\ answer' = Answer("register_collector", id, "none", <<>>)
    /\ UNCHANGED <<loading, regstate, warnings, created>>
    /\ UNCHANGED <<collectors, idx, mpc, rpc, sources, errors, files, manifest,
                   status, before, runlog>>
    /\ UNCHANGED <<fetchVars, lookupVars, xformVars>>

AvailableBuiltIn == RegistrationOrder

\* list(COLLECTORS.keys())
Available == COLLECTORS

\* lines 16-20
get_collector(id) ==
    /\ regstate = "ready"
    /\ created < MaxCreated
    /\ IF id \notin Range(COLLECTORS)
       THEN /\ answer' = Answer("get_collector", id, "ValueError", Available)
            /\ UNCHANGED created
       ELSE /\ answer' = Answer("get_collector", id, "instance",
                                Instance(registered[id], created + 1))
            /\ created' = created + 1
    /\ UNCHANGED <<loading, regstate, warnings, reglog>>
    /\ UNCHANGED mainVars
    /\ UNCHANGED <<fetchVars, lookupVars, xformVars>>

\* line 25: one new instance per value of COLLECTORS, in dict order; n
\* instances were constructed before
get_all_collectors(n) ==
    [i \in DOMAIN COLLECTORS |-> Instance(registered[COLLECTORS[i]], n + i)]

GetAllCollectors ==
    /\ regstate = "ready"
    /\ created + Len(COLLECTORS) <= MaxCreated
    /\ answer' = Answer("get_all_collectors", "", "instances",
                        get_all_collectors(created))
    /\ created' = created + Len(COLLECTORS)
    /\ UNCHANGED <<loading, regstate, warnings, reglog>>
    /\ UNCHANGED mainVars
    /\ UNCHANGED <<fetchVars, lookupVars, xformVars>>

\* the module is imported: COLLECTORS = {} (line 8), then _register_all()
InitRegistry ==
    /\ FetchAtRest /\ LookupAtRest /\ MainAtRest /\ XformAtRest
    /\ loading = 1 /\ regstate = "populating"
    /\ warnings = <<>> /\ reglog = <<>> /\ created = 0
    /\ answer = NoAnswer

NextRegistry ==
    \/ \E outcome \in ImportOutcomes : ImportModule(outcome)
    \/ \E id \in CallerIds, cls \in CallerClasses : RegisterCall(id, cls)
    \/ \E id \in Range(RegistrationOrder) \cup CallerIds : get_collector(id)
    \/ GetAllCollectors

SpecRegistry == InitRegistry /\ [][NextRegistry]_vars

-----------------------------------------------------------------------------
(* scripts/collect_all.py main() and BaseCollector.run *)

\* what _register_all can leave registered: a module that fails to import
\* is left out
Registries == { Pick(RegistrationOrder, S, 1) : S \in SUBSET (1..Len(RegistrationOrder)) }

\* lines 20-24: the lists are emptied and the collectors instantiated
MainStart ==
    /\ mpc = "start"
    /\ sources' = <<>>
    /\ errors' = <<>>
    /\ collectors' = [i \in DOMAIN COLLECTORS |->
                         source_id(get_all_collectors(created)[i].cls)]
    /\ created' = created + Len(COLLECTORS)
    /\ idx' = 1
    /\ mpc' = "loop"
    /\ UNCHANGED <<COLLECTORS, registered, rpc, files, manifest, status, before, runlog>>
    /\ UNCHANGED <<loading, regstate, warnings, reglog, answer>>
    /\ UNCHANGED <<fetchVars, lookupVars, xformVars>>

InRun(p) == mpc = "loop" /\ idx <= Len(collectors) /\ rpc = p

MainCatchAborts ==
    /\ errors' = Append(errors, collectors[idx])
    /\ runlog' = Append(runlog, [id |-> collectors[idx], ok |-> FALSE,
                                 before |-> before'])
    /\ idx' = Len(collectors) + 1
    /\ rpc' = "idle"

\* lines 32-34: run() raised; the error is recorded and the loop goes on
MainCatch ==
    /\ errors' = Append(errors, collectors[idx])
    /\ runlog' = Append(runlog, [id |-> collectors[idx], ok |-> FALSE,
                                 before |-> before'])
    /\ idx' = idx + 1
    /\ rpc' = "idle"

\* lines 51-57: the value main() returns
ExitStatus == IF errors # <<>> THEN 1 ELSE 0

\* run(): self.collect(), which returns or raises
RunCollect(ok) ==
    /\ InRun("idle")
    /\ before' = files[collectors[idx]]
    /\ IF ok
       THEN /\ rpc' = "collected"
            /\ UNCHANGED <<errors, runlog, idx>>
       ELSE MainCatch
    /\ UNCHANGED <<COLLECTORS, registered, collectors, mpc, sources, files, manifest, status>>
    /\ UNCHANGED <<fetchVars, lookupVars, xformVars, regVars>>

\* run(): output = self.transform(), which returns or raises
RunTransform(ok) ==
    /\ InRun("collected")
    /\ UNCHANGED before
    /\ IF ok
       THEN /\ rpc' = "transformed"
            /\ UNCHANGED <<errors, runlog, idx>>
       ELSE MainCatch
    /\ UNCHANGED <<COLLECTORS, registered, collectors, mpc, sources, files, manifest, status>>
    /\ UNCHANGED <<fetchVars, lookupVars, xformVars, regVars>>

\* run(): open(output_path, 'w') creates the file or empties the one there
RunOpen ==
    /\ InRun("transformed")
    /\ files' = [files EXCEPT ![collectors[idx]] = "empty"]
    /\ rpc' = "opened"
    /\ UNCHANGED <<COLLECTORS, registered, collectors, idx, mpc, sources, errors, manifest,
                   status, before, runlog>>
    /\ UNCHANGED <<fetchVars, lookupVars, xformVars, regVars>>

\* run(): f.write(output.to_json()) inside the with block: to_json() either
\* returns the document, which is written, or raises with the file open
RunWrite(ok) ==
    /\ InRun("opened")
    /\ UNCHANGED before
    /\ IF ok
       THEN /\ files' = [files EXCEPT ![collectors[idx]] = "new"]
            \* lines 30-31: back in main(), the id is added to sources
            /\ sources' = Append(sources, collectors[idx])
            /\ runlog' = Append(runlog, [id |-> collectors[idx], ok |-> TRUE,
                                         before |-> before])
            /\ idx' = idx + 1
            /\ rpc' = "idle"
            /\ UNCHANGED errors
       ELSE /\ MainCatch
            /\ UNCHANGED <<files, sources>>
    /\ UNCHANGED <<COLLECTORS, registered, collectors, mpc, manifest, status>>
    /\ UNCHANGED <<fetchVars, lookupVars, xformVars, regVars>>

\* lines 36-57: after the loop the manifest is written and main() returns
WriteManifest ==
    /\ mpc = "loop" /\ idx > Len(collectors)
    /\ manifest' = [written |-> TRUE, version |-> "1.0.0", sources |-> sources]
    /\ status' = ExitStatus
    /\ mpc' = "done"
    /\ UNCHANGED <<COLLECTORS, registered, collectors, idx, rpc, sources, errors, files,
                   before, runlog>>
    /\ UNCHANGED <<fetchVars, lookupVars, xformVars, regVars>>

InitMain ==
    /\ FetchAtRest /\ LookupAtRest /\ XformAtRest /\ RegAtRest
    /\ COLLECTORS \in Registries
    /\ registered = [id \in Range(COLLECTORS) |-> ClassOf(id)]
    /\ collectors = <<>> /\ idx = 1
    /\ mpc = "start" /\ rpc = "idle"
    /\ sources = <<>> /\ errors = <<>>
    \* an output file left by an earlier run is complete; the ids that are
    \* not registered have none
    /\ files \in [Range(RegistrationOrder) -> {"absent", "old"}]
    /\ \A c \in Range(RegistrationOrder) \ Range(COLLECTORS) : files[c] = "absent"
    /\ manifest = NoManifest /\ status = -1
    /\ before = "absent" /\ runlog = <<>>

NextMain ==
    \/ MainStart
    \/ \E ok \in BOOLEAN : RunCollect(ok)
    \/ \E ok \in BOOLEAN : RunTransform(ok)
    \/ RunOpen
    \/ \E ok \in BOOLEAN : RunWrite(ok)
    \/ WriteManifest

SpecMain == InitMain /\ [][NextMain]_vars

-----------------------------------------------------------------------------
(* The output of transform() *)

Point(date, value, cumulative) ==
    [date |-> date, value |-> value, cumulative |-> cumulative]

\* CollectorOutput with its one Metric and its one Timeseries
Output(metric, ts_metric, data, current) ==
    [kind |-> "output", data |-> data, current_value |-> current,
     metric_id |-> metric, ts_metric_id |-> ts_metric]

Years == 2020..(2019 + NumYears)
Amounts == 1..MaxAmount

-----------------------------------------------------------------------------
(* GenBankCollector *)

\* The releases whose notes were fetched and parsed, in ascending release
\* order: a release whose fetch fails or whose header lacks the year or the
\* bases is skipped (lines 110, 119-121).  The release number is the place
\* in this order.
GenBankRemotes ==
    UNION { [1..n -> [year : Years, bases : Amounts]] : n \in 0..MaxRows }

GenBankGrowth(parsed) ==
    [i \in 1..Len(parsed) |->
        [release |-> i, year |-> parsed[i].year, bases |-> parsed[i].bases]]

\* drop_duplicates(subset=['year'], keep='last')
DropDuplicateYearsKeepLast(df) ==
    Pick(df, { i \in DOMAIN df :
                 \A j \in DOMAIN df : j > i => df[j].year # df[i].year }, 1)

\* lines 126-130: sort by (year, release), keep the last row of each year,
\* sort by year
GenBankTable(growth_data) ==
    LET byYearRelease ==
            SortSeq(growth_data,
                    LAMBDA a, b : \/ a.year < b.year
                                  \/ a.year = b.year /\ a.release < b.release)
    IN  SortSeq(DropDuplicateYearsKeepLast(byYearRelease),
                LAMBDA a, b : a.year < b.year)

\* collect(): raises when no release could be parsed (the listing fetch
\* failed, or every release did), else stores the table
GenBankCollect ==
    /\ collector = "genbank"
    /\ IF remote = <<>>
       THEN /\ UNCHANGED store
            /\ collected' = RaisedIn(TRUE)
       ELSE /\ store' = [kind |-> "genbank", df |-> GenBankTable(GenBankGrowth(remote))]
            /\ collected' = Returned(FALSE)
    /\ out' = NoOutput
    /\ UNCHANGED <<collector, remote, searched>>
    /\ UNCHANGED <<fetchVars, lookupVars, mainVars, regVars>>

NoClamp(x) == x

\* lines 147-148 (UniProt: 175-176): a negative difference counts as zero
ClampAtZero(x) == IF x < 0 THEN 0 ELSE x

\* lines 142-157 (UniProt: 170-185): the totals are cumulative; each
\* period's value is the difference to the previous total, clamped at zero
CumulativeSeries(totals, years) ==
    [i \in 1..Len(totals) |->
        Point(<<years[i], 1, 1>>,
              ClampAtZero(totals[i] - (IF i = 1 THEN 0 ELSE totals[i - 1])),
              totals[i])]

GenBankOutput(df) ==
    LET bases == [i \in 1..Len(df) |-> df[i].bases]
        years == [i \in 1..Len(df) |-> df[i].year]
    IN  Output("bases", "bases", CumulativeSeries(bases, years), bases[Len(bases)])

\* transform(): read_parquet raises when collect() stored nothing
GenBankTransform ==
    /\ collector = "genbank"
    /\ out' = IF store.kind = "none" THEN Raised ELSE GenBankOutput(store.df)
    /\ UNCHANGED <<collector, remote, store, collected, searched>>
    /\ UNCHANGED <<fetchVars, lookupVars, mainVars, regVars>>

-----------------------------------------------------------------------------
(* UniProtCollector *)

\* The release notes answer or fail; what _get_historical_data finds for
\* each year (a year whose archive has no count is absent); the current
\* total of the API (0: not available).  With fewer than 5 years parsed from
\* the release notes, which is every case of this model, yearly_data is
\* the historical data.
UniProtRemotes ==
    [notes_ok : BOOLEAN, historical : Dicts(Years, Amounts),
     api_total : 0..MaxAmount]

current_year == 2019 + NumYears

MaxValue(d) ==
    IF DOMAIN d = {} THEN 0
    ELSE CHOOSE v \in Range(d) : \A w \in Range(d) : w <= v

\* lines 141-161: the API's total is taken for the current year when it is
\* not below the largest historical count
HistoricalData(r) ==
    IF r.api_total > 0 /\ r.api_total >= MaxValue(r.historical)
    THEN Put(r.historical, current_year, r.api_total)
    ELSE r.historical

\* lines 95-103: one row per year, in ascending year order
UniProtTable(yearly_data) ==
    LET ys == SortSeq(SetToSeq(DOMAIN yearly_data), LAMBDA a, b : a < b)
    IN  [i \in 1..Len(ys) |-> [year |-> ys[i], sequences |-> yearly_data[ys[i]]]]

\* collect(): raises when the release notes cannot be fetched; an empty
\* table is written before df.iloc[-1] raises
UniProtCollect ==
    /\ collector = "uniprot"
    /\ IF ~remote.notes_ok
       THEN /\ UNCHANGED store
            /\ collected' = RaisedIn(TRUE)
       ELSE LET df == UniProtTable(HistoricalData(remote))
            IN  /\ store' = [kind |-> "uniprot", df |-> df]
                /\ collected' = IF df = <<>> THEN RaisedIn(FALSE)
                                 ELSE Returned(FALSE)
    /\ out' = NoOutput
    /\ UNCHANGED <<collector, remote, searched>>
    /\ UNCHANGED <<fetchVars, lookupVars, mainVars, regVars>>

UniProtOutput(df) ==
    LET seqs == [i \in 1..Len(df) |-> df[i].sequences]
        years == [i \in 1..Len(df) |-> df[i].year]
    IN  Output("sequences", "sequences", CumulativeSeries(seqs, years),
               seqs[Len(seqs)])

\* transform(): raises without the parquet file, and on the empty table
\* (it has no 'sequences' column)
UniProtTransform ==
    /\ collector = "uniprot"
    /\ out' = IF store.kind = "none" \/ store.df = <<>>
              THEN Raised ELSE UniProtOutput(store.df)
    /\ UNCHANGED <<collector, remote, store, collected, searched>>
    /\ UNCHANGED <<fetchVars, lookupVars, mainVars, regVars>>

-----------------------------------------------------------------------------
(* PDBCollector *)

\* The answer of the search API for each year from the first to the current
\* one: its total_count, or -1 for a failed request (a status other than
\* 200, or an exception)
PDBRemotes == [1..NumYears -> (0..MaxAmount) \cup {-1}]

\* lines 45-98: a failed year counts 0; the running total is the cumulative
PDBTable(answers) ==
    LET annual == [i \in 1..Len(answers) |->
                      IF answers[i] = -1 THEN 0 ELSE answers[i]]
    IN  [i \in 1..Len(answers) |->
            [year |-> 2019 + i, annual |-> annual[i],
             cumulative |-> Sum(SubSeq(annual, 1, i))]]

PDBCollect ==
    /\ collector = "pdb"
    /\ store' = [kind |-> "pdb", df |-> PDBTable(remote)]
    /\ collected' = Returned(\A i \in DOMAIN remote : remote[i] = -1)
    /\ out' = NoOutput
    /\ UNCHANGED <<collector, remote, searched>>
    /\ UNCHANGED <<fetchVars, lookupVars, mainVars, regVars>>

PDBOutput(df) ==
    Output("structures", "structures",
           [i \in 1..Len(df) |->
               Point(<<df[i].year, 1, 1>>, df[i].annual, df[i].cumulative)],
           df[Len(df)].cumulative)

PDBTransformWithoutFile ==
    /\ collector = "pdb"
    /\ out' = IF store.kind = "none" THEN Output("structures", "structures", <<>>, 0)
              ELSE PDBOutput(store.df)
    /\ UNCHANGED <<collector, remote, store, collected, searched>>
    /\ UNCHANGED <<fetchVars, lookupVars, mainVars, regVars>>

\* transform(): read_parquet raises when collect() stored nothing
PDBTransform ==
    /\ collector = "pdb"
    /\ out' = IF store.kind = "none" THEN Raised ELSE PDBOutput(store.df)
    /\ UNCHANGED <<collector, remote, store, collected, searched>>
    /\ UNCHANGED <<fetchVars, lookupVars, mainVars, regVars>>

-----------------------------------------------------------------------------
(* SRACollector *)

\* Days are counted from 2007-01-01, the first day collect() asks for.
window_days == 14

\* the day of datetime.now(); its time of day is past midnight
today == window_days * NumWindows

\* strftime of the day d (d is within the first three months of 2007)
DateOf(d) ==
    IF d < 31 THEN <<2007, 1, d + 1>>
    ELSE IF d < 59 THEN <<2007, 2, d - 30>>
    ELSE <<2007, 3, d - 58>>

\* strptime of a date of 2007
DayOf(date) ==
    (CASE date[2] = 1 -> 0 [] date[2] = 2 -> 31 [] OTHER -> 59) + date[3] - 1

\* to_period('M')
MonthOf(date) == <<date[1], date[2]>>

MonthLess(a, b) == a[1] < b[1] \/ (a[1] = b[1] /\ a[2] < b[2])

\* the publication days the records of the model have: the first day, the
\* day that ends the first window and starts the second, the first day of
\* the next month
SampleDays == {0, window_days, 31}

\* A record of the remote database: its publication day, and whether its
\* publication date column parses ("ok") or not ("bad")
SraRecords == [day : SampleDays, pub : {"ok", "bad"}]

SraRecordLeq(a, b) ==
    a.day < b.day \/ (a.day = b.day /\ (a.pub = b.pub \/ a.pub = "bad"))

\* The remote database, and whether its tables carry one of the date
\* columns transform() looks for.  transform() counts the records, so one
\* order of each collection of records stands for all its orders.
SRARemotes ==
    [db : { t \in UNION { [1..n -> SraRecords] : n \in 0..MaxRows } :
              \A i \in 1..(Len(t) - 1) : SraRecordLeq(t[i], t[i + 1]) },
     has_date_col : BOOLEAN]

\* lines 46-61: the day after the latest end date among the file names, or
\* the first day
StartDay(parquet_files) ==
    IF parquet_files = {} THEN 0
    ELSE 1 + (CHOOSE d \in { DayOf(f.end) : f \in parquet_files } :
                  \A f \in parquet_files : DayOf(f.end) <= d)

\* lines 66-68, 94: the windows of one run, as <<first day, last day>>; the
\* window that reaches now is the last one
RECURSIVE Windows(_)
Windows(c) ==
    IF c > today THEN <<>>
    ELSE IF c + window_days <= today
         THEN << <<c, c + window_days>> >> \o Windows(c + window_days)
         ELSE << <<c, today>> >>

\* the answer to publication_date = "start:end": both days are included
Search(db, w) == SelectSeq(db, LAMBDA r : w[1] <= r.day /\ r.day <= w[2])

\* lines 74-92 for the windows ws[i..]: a window whose search raises, or
\* finds nothing, writes no file; a file of the same name is overwritten
RECURSIVE SaveWindows(_, _, _, _, _)
SaveWindows(parquet_files, db, ws, down, i) ==
    IF i > Len(ws) THEN parquet_files
    ELSE LET w == ws[i]
             df == Search(db, w)
             name == <<DateOf(w[1]), DateOf(w[2])>>
             kept == { f \in parquet_files : <<f.start, f.end>> # name }
         IN  IF i \in down \/ df = <<>>
             THEN SaveWindows(parquet_files, db, ws, down, i + 1)
             ELSE SaveWindows(kept \cup {[start |-> name[1], end |-> name[2],
                                          rows |-> df]},
                              db, ws, down, i + 1)

FilesOf(s) == IF s.kind = "none" THEN {} ELSE s.files

\* collect(): never raises; down holds the windows of this run, by their
\* place in it, whose search raises
SRACollect(down) ==
    /\ collector = "sra"
    /\ LET ws == Windows(StartDay(FilesOf(store)))
           parquet_files == SaveWindows(FilesOf(store), remote.db, ws, down, 1)
       IN  /\ down \subseteq DOMAIN ws
           /\ store' = IF parquet_files = {} THEN NoData
                       ELSE [kind |-> "sra", files |-> parquet_files]
           /\ collected' = Returned(ws # <<>> /\ down = DOMAIN ws)
           /\ searched' = [i \in DOMAIN ws |->
                               [first |-> ws[i][1], last |-> ws[i][2],
                                raised |-> i \in down]]
    /\ out' = NoOutput
    /\ UNCHANGED <<collector, remote>>
    /\ UNCHANGED <<fetchVars, lookupVars, mainVars, regVars>>

\* cumsum()
CumSum(counts) == [i \in 1..Len(counts) |-> Sum(SubSeq(counts, 1, i))]

\* pd.concat of the files
RECURSIVE Concat(_)
Concat(fs) == IF fs = <<>> THEN <<>> ELSE fs[1].rows \o Concat(Tail(fs))

\* lines 128-135: the rows whose date parses, counted by month
MonthlyCounts(parquet_files) ==
    LET combined == SelectSeq(Concat(SetToSeq(parquet_files)), LAMBDA r : r.pub = "ok")
        months == SortSeq(SetToSeq({ MonthOf(DateOf(combined[i].day)) :
                                        i \in DOMAIN combined }), MonthLess)
        count == [i \in 1..Len(months) |->
                     Len(SelectSeq(combined,
                                   LAMBDA r : MonthOf(DateOf(r.day)) = months[i]))]
        cumulative == CumSum(count)
    IN  [i \in 1..Len(months) |->
            Point(<<months[i][1], months[i][2], 1>>, count[i], cumulative[i])]

\* sorted(parquet_files): the names compare by start date, then end date
FileLess(f, g) ==
    \/ DateLess(f.start, g.start)
    \/ f.start = g.start /\ DateLess(f.end, g.end)

\* _aggregate_from_filenames: one record per file, dated by the file's
\* start date, counting the file's rows
AggregateFromFilenames(parquet_files) ==
    LET fs == SortSeq(SetToSeq(parquet_files), FileLess)
        count == [i \in 1..Len(fs) |-> Len(fs[i].rows)]
        cumulative == CumSum(count)
    IN  [i \in 1..Len(fs) |-> Point(fs[i].start, count[i], cumulative[i])]

SRAOutput(parquet_files, has_date_col) ==
    LET monthly_counts == IF has_date_col THEN MonthlyCounts(parquet_files)
                          ELSE AggregateFromFilenames(parquet_files)
    IN  Output("sequences", "sequences", monthly_counts,
               IF Len(monthly_counts) > 0
               THEN monthly_counts[Len(monthly_counts)].cumulative ELSE 0)

\* transform(): raises when the data directory has no parquet file
SRATransform ==
    /\ collector = "sra"
    /\ out' = IF store.kind = "none" THEN Raised
              ELSE SRAOutput(store.files, remote.has_date_col)
    /\ UNCHANGED <<collector, remote, store, collected, searched>>
    /\ UNCHANGED <<fetchVars, lookupVars, mainVars, regVars>>

-----------------------------------------------------------------------------
(* CellxGeneCollector *)

\* a missing collection_doi in the dataset table, whose DOIs are the keys
\* 1..NumKeys
NoDoi == 0

DatasetRows == [doi : Keys \cup {NoDoi}, cell_count : Amounts]

RowLeq(a, b) ==
    a.doi < b.doi \/ (a.doi = b.doi /\ a.cell_count <= b.cell_count)

\* The dataset tables (collection_doi, cell_count) of up to MaxDatasets
\* rows.  transform() sorts and groups the rows, so one order of each
\* collection of rows stands for all its orders.
DatasetTables ==
    { t \in UNION { [1..n -> DatasetRows] : n \in 0..MaxDatasets } :
        \A i \in 1..(Len(t) - 1) : RowLeq(t[i], t[i + 1]) }

\* Whether the census opens; its unique_cell_count; its dataset table; and
\* what a lookup of each DOI ends with (_fetch_single_doi after its
\* retries: a date or None)
CellxGeneRemotes ==
    [reachable : {TRUE},
     official_total : 1..MaxTotal,
     datasets : DatasetTables,
     crossref : [Keys -> Dates \cup {None}]]
    \cup {[reachable |-> FALSE, official_total |-> 1, datasets |-> <<>>,
           crossref |-> [k \in Keys |-> None]]}

\* collect(): raises when the census cannot be opened
CellxGeneCollect ==
    /\ collector = "cellxgene"
    /\ IF ~remote.reachable
       THEN /\ UNCHANGED store
            /\ collected' = RaisedIn(TRUE)
       ELSE /\ store' = [kind |-> "cellxgene",
                         official_total |-> remote.official_total,
                         datasets |-> remote.datasets]
            /\ collected' = Returned(FALSE)
    /\ out' = NoOutput
    /\ UNCHANGED <<collector, remote, searched>>
    /\ UNCHANGED <<fetchVars, lookupVars, mainVars, regVars>>

\* dropna().unique().tolist()
UniqueDois(ds) ==
    LET col == [i \in 1..Len(ds) |-> ds[i].doi]
    IN  Pick(col, { i \in DOMAIN col :
                      /\ col[i] # NoDoi
                      /\ \A j \in DOMAIN col : j < i => col[j] # col[i] }, 1)

\* _get_publication_dates as a whole: a cached DOI is answered from the
\* cache file, another one by its lookup
PubDates(ds, file, crossref) ==
    [k \in Range(ds) |-> IF k \in DOMAIN file THEN file[k] ELSE crossref[k]]

\* the cache file after the batch: every looked-up DOI is added
CacheAfter(ds, file, crossref) ==
    [k \in DOMAIN file \cup Range(ds) |->
        IF k \in DOMAIN file THEN file[k] ELSE crossref[k]]

\* int(x * scale_factor) with scale_factor = official_total /
\* timeseries_total: for the amounts of this model the float product
\* truncates to the integer quotient
Scaled(x, official_total, timeseries_total) ==
    (x * official_total) \div timeseries_total

\* lines 181-198: the datasets with a publication date, summed by month,
\* with the running total of cells up to the end of each month
CellxGeneMonthly(ds, pub_dates) ==
    LET with_dates == SelectSeq(ds, LAMBDA r : /\ r.doi # NoDoi
                                               /\ pub_dates[r.doi] # None)
        MonthOfRow(r) == MonthOf(pub_dates[r.doi])
        months == SortSeq(SetToSeq({ MonthOfRow(with_dates[i]) :
                                        i \in DOMAIN with_dates }), MonthLess)
        cell_count == [i \in 1..Len(months) |->
            LET rows == SelectSeq(with_dates, LAMBDA r : MonthOfRow(r) = months[i])
            IN  Sum([j \in 1..Len(rows) |-> rows[j].cell_count])]
        cum_cells == CumSum(cell_count)
    IN  [i \in 1..Len(months) |->
            [month |-> months[i], cell_count |-> cell_count[i],
             cum_cells |-> cum_cells[i]]]

\* line 201
TimeseriesTotal(monthly) ==
    IF Len(monthly) > 0 THEN monthly[Len(monthly)].cum_cells ELSE 1

\* lines 200-232
CellxGeneOutput(s, pub_dates) ==
    LET monthly == CellxGeneMonthly(s.datasets, pub_dates)
        timeseries_total == TimeseriesTotal(monthly)
    IN  Output("cells", "cells",
               [i \in 1..Len(monthly) |->
                   Point(<<monthly[i].month[1], monthly[i].month[2], 1>>,
                         Scaled(monthly[i].cell_count, s.official_total,
                                timeseries_total),
                         Scaled(monthly[i].cum_cells, s.official_total,
                                timeseries_total))],
               s.official_total)

\* transform(): raises without the parquet files; the DOI lookups of the
\* batch end in the cache file
CellxGeneTransform ==
    /\ collector = "cellxgene"
    /\ IF store.kind = "none"
       THEN /\ out' = Raised
            /\ UNCHANGED cacheFile
       ELSE LET unique_dois == UniqueDois(store.datasets)
            IN  /\ out' = CellxGeneOutput(store,
                              PubDates(unique_dois, cacheFile, remote.crossref))
                /\ cacheFile' = CacheAfter(unique_dois, cacheFile, remote.crossref)
    /\ UNCHANGED <<collector, remote, store, collected, searched>>
    /\ UNCHANGED <<cacheFile0, dois, yielded, gaveup, lpc, cache, results, dois_to_fetch, futures>>
    /\ UNCHANGED <<fetchVars, mainVars, regVars>>

-----------------------------------------------------------------------------
(* collect() and transform() of one collector against one remote source *)

InitTransform ==
    /\ FetchAtRest /\ LookupAtRest /\ MainAtRest /\ RegAtRest
    /\ collector \in Range(RegistrationOrder)
    /\ remote \in CASE collector = "genbank" -> GenBankRemotes
                    [] collector = "uniprot" -> UniProtRemotes
                    [] collector = "pdb" -> PDBRemotes
                    [] collector = "sra" -> SRARemotes
                    [] collector = "cellxgene" -> CellxGeneRemotes
    /\ store = NoData
    /\ collected = NotCollected
    /\ searched = <<>>
    /\ out = NoOutput

NextTransform ==
    \/ GenBankCollect
    \/ GenBankTransform
    \/ UniProtCollect
    \/ UniProtTransform
    \/ PDBCollect
    \/ PDBTransform
    \/ \E down \in SUBSET (1..(NumWindows + 1)) : SRACollect(down)
    \/ SRATransform
    \/ CellxGeneCollect
    \/ CellxGeneTransform

SpecTransform == InitTransform /\ [][NextTransform]_vars

-----------------------------------------------------------------------------
(* Properties of the emitted Timeseries *)

\* C1: in every Timeseries transform() emits, of any collector and for any
\* stored raw table, the points are in ascending date order and cumulative
\* does not decrease from a point to the next.
C1_CumulativeNonDecreasing ==
    out.kind = "output" =>
        \A i \in 2..Len(out.data) :
            /\ ~DateLess(out.data[i].date, out.data[i - 1].date)
            /\ out.data[i - 1].cumulative <= out.data[i].cumulative

\* C2: in every Timeseries transform() emits, the first cumulative is the
\* first value and each later cumulative is the previous cumulative plus
\* the point's value.
C2_CumulativeIsRunningSum ==
    out.kind = "output" =>
        \A i \in 1..Len(out.data) :
            out.data[i].cumulative =
                (IF i = 1 THEN 0 ELSE out.data[i - 1].cumulative) + out.data[i].value

\* C11: transform() never returns an output whose timeseries data is empty
\* or whose metric is zero: when no raw observation survives, it fails.
C11_NoEmptyOrDegenerateOutput ==
    out.kind = "output" => out.data # <<>> /\ out.current_value # 0

\* C12: a collect() whose every request to the remote source failed raises
\* to its caller; it never returns normally.
C12_CollectRaisesWhenUnreachable ==
    collected.unreachable => collected.kind = "raised"

\* C13: transform() of a collector whose collect() has stored no raw data
\* fails and returns no CollectorOutput: an output is only ever returned
\* from a raw store that holds data.
C13_TransformWithoutDataFails ==
    store = NoData => out.kind # "output"

\* transform() was called before any collect(), and raised
C13_Witness ==
    store = NoData /\ collected = NotCollected /\ out = Raised

\* the monthly table the last CellxGene transform() built from the raw store
\* (the cache file now holds every DOI it looked up)
LastMonthly ==
    CellxGeneMonthly(store.datasets,
                     PubDates(UniqueDois(store.datasets), cacheFile, remote.crossref))

\* C16: with locally-summed total T > 0 and authoritative total A, every
\* value and every cumulative CellxGene emits is the raw amount times A/T,
\* and the last cumulative is A.
C16_ScaledByOneFactor ==
    (collector = "cellxgene" /\ out.kind = "output" /\ out.data # <<>>) =>
        LET T == TimeseriesTotal(LastMonthly)
            A == store.official_total
        IN  /\ \A i \in DOMAIN out.data :
                  /\ out.data[i].value * T = LastMonthly[i].cell_count * A
                  /\ out.data[i].cumulative * T = LastMonthly[i].cum_cells * A
            /\ out.data[Len(out.data)].cumulative = A

\* the raw store of SRA with row i of the file f stored a second time
WithCopiedRow(parquet_files, f, i) ==
    (parquet_files \ {f}) \cup {[f EXCEPT !.rows = Append(@, @[i])]}

\* C17: a second copy of a raw observation that is already in the raw input
\* leaves the emitted Timeseries as it is, for every collector.
C17_CopyOfObservationChangesNothing ==
    out.kind = "output" =>
        CASE collector = "sra" ->
               \A f \in store.files : \A i \in DOMAIN f.rows :
                   SRAOutput(WithCopiedRow(store.files, f, i),
                             remote.has_date_col).data = out.data
          [] collector = "cellxgene" ->
               \A i \in DOMAIN store.datasets :
                   CellxGeneOutput(
                       [store EXCEPT !.datasets = Append(@, @[i])],
                       PubDates(UniqueDois(store.datasets), cacheFile,
                                remote.crossref)).data = out.data
          [] collector = "genbank" ->
               \A i \in DOMAIN remote :
                   LET growth_data == GenBankGrowth(remote)
                   IN  GenBankOutput(GenBankTable(
                           Append(growth_data, growth_data[i]))).data = out.data
          [] OTHER -> TRUE

\* the yearly totals and years of the stored table of a cumulative-encoded
\* source, as rows of (year, total)
StoredTotals ==
    [i \in 1..Len(store.df) |->
        [year  |-> store.df[i].year,
         total |-> IF collector = "genbank" THEN store.df[i].bases
                   ELSE store.df[i].sequences]]

\* C20: for GenBank and UniProt with stored yearly totals c, the emitted
\* series has one point per stored year, dated January 1 of the year, whose
\* cumulative is the stored total; the first value is the first total and a
\* later value is the difference to the previous total when that is not
\* negative and 0 otherwise, so no value is negative; the totals 100, 250,
\* 400 of 2020-2022 yield the values 100, 150, 150.
C20_CumulativeEncodedDifferences ==
    /\ CumulativeSeries(<<100, 250, 400>>, <<2020, 2021, 2022>>) =
           << Point(<<2020, 1, 1>>, 100, 100),
              Point(<<2021, 1, 1>>, 150, 250),
              Point(<<2022, 1, 1>>, 150, 400) >>
    /\ (collector \in {"genbank", "uniprot"} /\ out.kind = "output") =>
           LET c == StoredTotals
           IN  /\ Len(out.data) = Len(c)
               /\ \A i \in 1..Len(c) :
                     /\ out.data[i].date = <<c[i].year, 1, 1>>
                     /\ out.data[i].cumulative = c[i].total
                     /\ out.data[i].value >= 0
                     /\ i = 1 => out.data[i].value = c[1].total
                     /\ i > 1 =>
                           out.data[i].value =
                               IF c[i].total - c[i - 1].total >= 0
                               THEN c[i].total - c[i - 1].total
                               ELSE 0

\* a three-year series with a growing total and a shrinking one
C20_Witness ==
    /\ collector \in {"genbank", "uniprot"}
    /\ out.kind = "output"
    /\ Len(out.data) = 3
    /\ out.data[2].value > 0
    /\ out.data[2].value = out.data[2].cumulative - out.data[1].cumulative
    /\ out.data[3].cumulative < out.data[2].cumulative
    /\ out.data[3].value = 0

\* the period of a point: its month for the monthly sources, its year for
\* the yearly ones
PeriodOf(p) ==
    IF collector \in {"sra", "cellxgene"} THEN MonthOf(p.date) ELSE <<p.date[1]>>

\* the points of the emitted series that lie in the period m
PointsIn(m) == { i \in DOMAIN out.data : PeriodOf(out.data[i]) = m }

\* the records of the SRA raw store with the month each belongs to: by its
\* publication date where the tables have a date column, else by the start
\* date of its file
SraRawMonths ==
    IF remote.has_date_col
    THEN LET rows == SelectSeq(Concat(SetToSeq(store.files)),
                               LAMBDA r : r.pub = "ok")
         IN  [i \in DOMAIN rows |-> MonthOf(DateOf(rows[i].day))]
    ELSE LET fs == SetToSeq(store.files)
             RECURSIVE Starts(_)
             Starts(k) == IF k > Len(fs) THEN <<>>
                          ELSE [j \in DOMAIN fs[k].rows |-> MonthOf(fs[k].start)]
                               \o Starts(k + 1)
         IN  Starts(1)

\* C21: every emitted Timeseries has exactly one point per period present
\* in the raw input and no two points share a period: GenBank keeps for
\* each year the record of the highest release; SRA emits for each month
\* the number of its records and CellxGene the (scaled) sum of its cell
\* counts.
C21_OnePointPerPeriod ==
    out.kind = "output" =>
        /\ \A i, j \in DOMAIN out.data :
              i # j => PeriodOf(out.data[i]) # PeriodOf(out.data[j])
        /\ collector = "genbank" =>
              \A r \in DOMAIN remote :
                  (\A q \in DOMAIN remote : q > r => remote[q].year # remote[r].year)
                  => \E i \in DOMAIN out.data :
                        /\ PointsIn(<<remote[r].year>>) = {i}
                        /\ out.data[i].cumulative = remote[r].bases
        /\ collector = "sra" =>
              \A k \in DOMAIN SraRawMonths :
                  \E i \in DOMAIN out.data :
                      /\ PointsIn(SraRawMonths[k]) = {i}
                      /\ out.data[i].value =
                            Cardinality({ q \in DOMAIN SraRawMonths :
                                            SraRawMonths[q] = SraRawMonths[k] })
        /\ collector = "cellxgene" =>
              LET pub_dates == PubDates(UniqueDois(store.datasets), cacheFile,
                                        remote.crossref)
                  dated == SelectSeq(store.datasets,
                                     LAMBDA r : /\ r.doi # NoDoi
                                                /\ pub_dates[r.doi] # None)
                  InMonth(m) == SelectSeq(dated,
                                    LAMBDA r : MonthOf(pub_dates[r.doi]) = m)
                  Cells(rows) == Sum([j \in DOMAIN rows |-> rows[j].cell_count])
              IN  \A k \in DOMAIN dated :
                      LET m == MonthOf(pub_dates[dated[k].doi])
                      IN  \E i \in DOMAIN out.data :
                              /\ PointsIn(m) = {i}
                              /\ out.data[i].value =
                                    (Cells(InMonth(m)) * store.official_total)
                                        \div Cells(dated)

\* C22: the date of every emitted point is the first day of its period, the
\* first of the month for the monthly sources and January 1 for the yearly
\* ones, on every path of transform(), the filename-based aggregation of SRA
\* included.
C22_DateIsFirstDayOfPeriod ==
    out.kind = "output" =>
        \A i \in DOMAIN out.data :
            /\ out.data[i].date[3] = 1
            /\ collector \in {"genbank", "uniprot", "pdb"} => out.data[i].date[2] = 1

\* C24: every output of transform() has one Metric and one Timeseries that
\* names that Metric, and the Metric's current_value is the cumulative of
\* the last point of the Timeseries (the running total of no point being
\* zero); for CellxGene that is the authoritative total.
C24_CurrentValueIsLastCumulative ==
    out.kind = "output" =>
        /\ out.ts_metric_id = out.metric_id
        /\ out.current_value =
              IF out.data = <<>> THEN 0 ELSE out.data[Len(out.data)].cumulative
        /\ collector = "cellxgene" => out.current_value = store.official_total

\* the days a search asks for
DaysOf(s) == s.first..s.last

\* C25: each run of SRA collect() makes a bounded number of searches and
\* ends; after a run, the next run resumes no later than the first day of
\* any window whose search raised in this run, so that window is requested
\* again; and no day is requested by two different windows of a run.
C25_ResumeSkipsNothing ==
    collector = "sra" =>
        /\ Len(searched) <= NumWindows + 1
        /\ \A i \in DOMAIN searched :
              searched[i].raised =>
                  StartDay(FilesOf(store)) <= searched[i].first
        /\ \A i, j \in DOMAIN searched :
              i # j => DaysOf(searched[i]) \cap DaysOf(searched[j]) = {}

-----------------------------------------------------------------------------
(* Properties of main() and run() *)

IdsOf(log) == [i \in 1..Len(log) |-> log[i].id]

\* C8: main() runs every registered collector exactly once, in registry
\* order, whatever fails; it writes the manifest, whose sources are exactly
\* the ids whose run() returned, in run order; it returns 1 if and only if
\* some run() raised.
C8_MainRunsEveryCollector ==
    mpc = "done" =>
        /\ IdsOf(runlog) = COLLECTORS
        /\ manifest.written
        /\ manifest.sources = IdsOf(SelectSeq(runlog, LAMBDA e : e.ok))
        /\ status \in {0, 1}
        /\ status = 1 <=> \E i \in DOMAIN runlog : ~runlog[i].ok

C8_Witness ==
    /\ mpc = "done"
    /\ Len(runlog) = 5
    /\ ~runlog[2].ok /\ runlog[3].ok /\ ~runlog[4].ok /\ runlog[5].ok
    /\ manifest.sources = <<"pdb", "uniprot">>
    /\ status = 1

\* C9: whenever run() fails, in collect, in transform or while serializing,
\* the output file is as it was before the call: absent, or holding its
\* previous complete contents.
C9_FailedRunLeavesOutputUntouched ==
    \A i \in DOMAIN runlog :
        ~runlog[i].ok => files[runlog[i].id] = runlog[i].before

-----------------------------------------------------------------------------
(* Properties of the registry *)

\* the ids of the register_collector calls, each at its first call
FirstRegistered(log) ==
    Pick(IdsOf(log), { i \in DOMAIN log :
                         \A j \in DOMAIN log : j < i => log[j].id # log[i].id }, 1)

\* the class of the last register_collector call made with each id
LastRegistered(log) ==
    [id \in { log[i].id : i \in DOMAIN log } |->
        log[CHOOSE i \in DOMAIN log :
                /\ log[i].id = id
                /\ \A j \in DOMAIN log : j > i => log[j].id # id].cls]

\* C14: get_collector(id) with an id that is not registered raises an error
\* that lists exactly the registered ids; with a registered id it returns a
\* new instance of the class last registered under the id; either way the
\* registry is what the register_collector calls made it.
C14_GetCollector ==
    answer.op = "get_collector" =>
        /\ COLLECTORS = FirstRegistered(reglog)
        /\ registered = LastRegistered(reglog)
        /\ IF answer.source_id \in Range(FirstRegistered(reglog))
           THEN /\ answer.kind = "instance"
                /\ answer.value =
                       Instance(LastRegistered(reglog)[answer.source_id], created)
           ELSE /\ answer.kind = "ValueError"
                /\ answer.value = FirstRegistered(reglog)

\* get_collector("pdb") raised when the pdb module had not loaded and a
\* caller had registered another id
C14_Witness ==
    /\ answer.op = "get_collector" /\ answer.kind = "ValueError"
    /\ answer.source_id = "pdb"
    /\ Len(answer.value) >= 2
    /\ \E i \in DOMAIN answer.value : answer.value[i] = "custom"

\* C15: whatever makes a collector module fail to load, the population of
\* the registry does not raise; once it is over (and before any caller has
\* registered anything) every module is either registered or was skipped
\* with a warning, and the registered ids are in registration order.
C15_PopulationNeverRaises ==
    /\ regstate # "raised"
    /\ (regstate = "ready" /\ answer = NoAnswer) =>
          COLLECTORS = SelectSeq(RegistrationOrder,
                                 LAMBDA id : id \notin Range(warnings))

\* C23: after any sequence of register_collector calls the registry holds,
\* for each id, the class of the last call made with that id, and a call
\* never raises; get_all_collectors() returns one new instance per
\* registered id, of the class the registry holds for it, in the order of
\* each id's first registration.
C23_LastRegistrationWins ==
    /\ registered = LastRegistered(reglog)
    /\ COLLECTORS = FirstRegistered(reglog)
    /\ answer.op = "register_collector" =>
          /\ answer.kind = "none"
          /\ registered[answer.source_id] = reglog[Len(reglog)].cls
    /\ answer.op = "get_all_collectors" =>
          LET ids == FirstRegistered(reglog)
          IN  /\ answer.kind = "instances"
              /\ Len(answer.value) = Cardinality({ reglog[i].id : i \in DOMAIN reglog })
              /\ \A i \in DOMAIN answer.value :
                    /\ answer.value[i].cls = LastRegistered(reglog)[ids[i]]
                    /\ answer.value[i].serial > created - Len(answer.value)
                    /\ \A j \in DOMAIN answer.value :
                          i # j => answer.value[i].serial # answer.value[j].serial

\* "sra" was registered again with another class and a new id was added:
\* get_all_collectors() gave the new class at the place of "sra" and the
\* new id's instance last
C23_Witness ==
    /\ answer.op = "get_all_collectors"
    /\ \E i \in DOMAIN COLLECTORS :
          /\ COLLECTORS[i] = "sra"
          /\ i < Len(COLLECTORS)
          /\ answer.value[i].cls = "PDBCollector"
    /\ COLLECTORS[Len(COLLECTORS)] = "custom"
    /\ answer.value[Len(answer.value)].cls = registered["custom"]
    /\ Len(reglog) > Len(COLLECTORS)

-----------------------------------------------------------------------------
(* Properties of a lookup batch *)

RECURSIVE SumAttempts(_)
SumAttempts(fs) ==
    IF fs = <<>> THEN 0 ELSE fs[1].attempt + SumAttempts(Tail(fs))

\* the remote calls of the batch so far
TotalRequests == SumAttempts(futures)

LookupsOf(k) == { i \in DOMAIN futures : futures[i].doi = k }

\* C3: no lookup for a DOI the cache file already held (whatever its value),
\* exactly one lookup per other DOI, so m remote calls for m uncached DOIs
\* when every lookup is over after its first request; on return the result
\* and the cache file hold every input DOI.
C3_CachedKeysAreNotFetched ==
    lpc = "returned" =>
        LET cached == { k \in Range(dois) : k \in DOMAIN cacheFile0 }
            uncached == Range(dois) \ cached
        IN  /\ \A k \in cached :
                  LookupsOf(k) = {} /\ results[k] = cacheFile0[k]
            /\ \A k \in uncached : Cardinality(LookupsOf(k)) = 1
            /\ (\A i \in DOMAIN futures : futures[i].attempt = 1)
                  => TotalRequests = Cardinality(uncached)
            /\ Range(dois) \subseteq DOMAIN results
            /\ Range(dois) \subseteq DOMAIN cacheFile

C3_Witness ==
    /\ lpc = "returned"
    /\ \E k \in Range(dois) : k \in DOMAIN cacheFile0 /\ cacheFile0[k] = None
    /\ \E k \in Range(dois) : k \notin DOMAIN cacheFile0
    /\ \A i \in DOMAIN futures : futures[i].attempt = 1
    /\ TotalRequests = 1

\* C4 as stated: a result the main thread has received is already in the
\* cache file, while the batch runs and after a crash.
C4_ResultOnDiskAtCompletion ==
    lpc \in {"fetching", "crashed"} =>
        \A i \in DOMAIN futures :
            futures[i].state = "collected" =>
                /\ futures[i].doi \in DOMAIN cacheFile
                /\ cacheFile[futures[i].doi] = futures[i].value

\* C4 amended: a result is put in the in-memory cache as soon as the main
\* thread receives it, and the cache file is written once, after the last
\* lookup of the batch; until then, and after a crash during the batch, the
\* file is as it was before the batch.
C4_CacheFileWrittenAtBatchEnd ==
    /\ lpc \in {"fetching", "crashed"} =>
          /\ cacheFile = cacheFile0
          /\ \A i \in DOMAIN futures :
                futures[i].state = "collected" =>
                    /\ futures[i].doi \in DOMAIN cache
                    /\ cache[futures[i].doi] = futures[i].value
    /\ (lpc = "returned" /\ futures # <<>>) =>
          \A i \in DOMAIN futures :
              /\ futures[i].doi \in DOMAIN cacheFile
              /\ cacheFile[futures[i].doi] = futures[i].value

C4_Witness ==
    /\ lpc = "crashed"
    /\ \E i \in DOMAIN futures :
          /\ futures[i].state = "collected"
          /\ futures[i].value \in Dates
          /\ futures[i].doi \notin DOMAIN cacheFile

\* C10: transform() issues no remote call.  Every step of a lookup batch is
\* taken inside CellxGene's transform() (its line 180), so no call of the
\* batch may issue a request.
C10_TransformIssuesNoRequest ==
    lpc \in {"transform", "fetching", "returned"} => TotalRequests = 0

\* what the _fetch_single_doi call submitted for the DOI k returned
FetchedValue(k) ==
    futures[CHOOSE i \in DOMAIN futures : futures[i].doi = k].value

\* the date of each DOI, by the cache file of before the batch and the
\* per-key results of the lookups alone
DateByKey(ks) ==
    [k \in ks |-> IF k \in DOMAIN cacheFile0 THEN cacheFile0[k] ELSE FetchedValue(k)]

\* a dataset table with one dataset of one cell per DOI
OneDatasetPerDoi(ds) ==
    [official_total |-> Len(ds),
     datasets |-> [i \in 1..Len(ds) |-> [doi |-> ds[i], cell_count |-> 1]]]

\* C18: whatever the order in which the concurrent lookups complete, the
\* result map and the persisted cache are the ones the per-key results
\* determine, and the Timeseries built from the result map has its points
\* in ascending period order.
C18_CompletionOrderIsImmaterial ==
    lpc = "returned" =>
        /\ results = DateByKey(Range(dois))
        /\ cacheFile = DateByKey(DOMAIN cacheFile0 \cup Range(dois))
        /\ LET data == CellxGeneOutput(OneDatasetPerDoi(dois), results).data
           IN  \A i \in 2..Len(data) : DateLess(data[i - 1].date, data[i].date)

\* two lookups completed in the reverse of their submission order, and the
\* one that completed first has the later date
C18_Witness ==
    /\ lpc = "returned"
    /\ Len(yielded) = 2
    /\ yielded = <<dois_to_fetch[2], dois_to_fetch[1]>>
    /\ results[yielded[1]] # None /\ results[yielded[2]] # None
    /\ DateLess(results[yielded[2]], results[yielded[1]])

\* C19: a key whose lookup fails on all its attempts does not abort the
\* batch: when the batch returns every key has its result, and the failed
\* key has null, in the result map and in the cache file.  The cached null
\* stays in the file, and no later run submits a lookup for that key.
C19_FailedLookupResolvesToCachedNull ==
    /\ lpc = "returned" =>
          /\ DOMAIN results = Range(dois)
          /\ \A i \in DOMAIN futures :
                /\ futures[i].state = "collected"
                /\ results[futures[i].doi] = futures[i].value
                /\ futures[i].exhausted =>
                      /\ results[futures[i].doi] = None
                      /\ futures[i].doi \in DOMAIN cacheFile
                      /\ cacheFile[futures[i].doi] = None
    /\ \A k \in gaveup :
          /\ k \in DOMAIN cacheFile /\ cacheFile[k] = None
          /\ \A i \in DOMAIN futures : futures[i].doi # k

\* a later run asked for a key an earlier run had given up on, made no
\* call for it, and gave up on another key of its own batch
C19_Witness ==
    /\ lpc = "returned"
    /\ gaveup \cap Range(dois) # {}
    /\ \E i \in DOMAIN futures : futures[i].exhausted
    /\ \A k \in gaveup \cap Range(dois) : results[k] = None

-----------------------------------------------------------------------------
(* Properties of one fetch *)

\* the requests of a log, in order
Requests(log) == SelectSeq(log, LAMBDA e : e.t = "req")
Sleeps(log) == SelectSeq(log, LAMBDA e : e.t = "sleep")

Transient == {"timeout", "connerr", "429"}

\* C5: in every retry-wrapped fetch an HTTP 404 ends the fetch after exactly
\* one request: the 404 is the only thing the fetch did (no sleep, no other
\* attempt follows it) and the fetch is over; a DOI lookup returns None.
\* (The None is put in the cache by AsCompleted, in the lookup batch.)
C5_NotFoundEndsFetch ==
    \A i \in 1..Len(flog) :
        (flog[i].t = "req" /\ flog[i].kind = "404") =>
            /\ i = Len(flog)
            /\ fstate # "running"
            /\ fkind = "doi" => (fstate = "returned" /\ fvalue = None)

\* C6: a fetch is re-attempted only after a timeout, a connection error or
\* an HTTP 429 (every request but the last one of a fetch ended in one of
\* these), and a fetch issues at most 3 requests.
C6_RetryOnlyTransient ==
    LET reqs == Requests(flog)
    IN  /\ Len(reqs) <= 3
        /\ \A i \in 1..Len(reqs) : i < Len(reqs) => reqs[i].kind \in Transient

\* C7: a DOI lookup answered 429, 429, 200 returns the value of the third
\* answer after exactly 3 requests, sleeping before each retry and not after
\* the last attempt, the second sleep twice the first.
C7_RateLimitedTwiceThenSuccess ==
    LET reqs == Requests(flog)
    IN  (/\ fkind = "doi" /\ fstate = "returned" /\ Len(reqs) = 3
         /\ reqs[1].kind = "429" /\ reqs[2].kind = "429" /\ reqs[3].kind = "200")
        => /\ fvalue = reqs[3].date
           /\ attempt = 3
           /\ Len(flog) = 5
           /\ flog[1].t = "req" /\ flog[2].t = "sleep" /\ flog[3].t = "req"
           /\ flog[4].t = "sleep" /\ flog[5].t = "req"
           /\ flog[2].d > 0
           /\ flog[4].d = 2 * flog[2].d

C7_Witness ==
    LET reqs == Requests(flog)
    IN  /\ fkind = "doi" /\ fstate = "returned" /\ Len(reqs) = 3
        /\ reqs[1].kind = "429" /\ reqs[2].kind = "429" /\ reqs[3].kind = "200"
        /\ fvalue \in Dates
        /\ Len(Sleeps(flog)) = 2

====
